---- MODULE Spec2Model ----
(***************************************************************************)
(* Model of producers/json_producer_ruiz.py: the driver main() and the     *)
(* record source generate_messages(), as one sequential process whose      *)
(* environment may rewrite the data file, fail the broker calls and        *)
(* deliver one KeyboardInterrupt, at any position of main up to and        *)
(* including the streaming loop.  The except and finally blocks run        *)
(* without a further signal.                                               *)
(***************************************************************************)
EXTENDS Integers, Sequences, FiniteSets, TLC

\* ---- bounds of the model -------------------------------------------------
MaxLen == 2          \* longest record collection in the file
MaxMessages == 5     \* publish calls per run
MaxReads == 4        \* reads of the data file per run
MaxChanges == 1      \* rewrites of the data file per run
LongRun == 10        \* publish calls and reads of a run followed to the 10th message

\* ---- values ----------------------------------------------------------------
NoExit == -1         \* the process has not exited / no SystemExit pending
ExitInterrupted == 130   \* status of a run ended by an uncaught KeyboardInterrupt
ExitUncaught == 1        \* status of a run ended by an uncaught exception

\* Two distinguishable records are what an order or a repetition shows on.
Records == {1, 2}

RECURSIVE SeqsUpTo(_)
SeqsUpTo(n) ==
    IF n = 0 THEN {<<>>}
    ELSE LET S == SeqsUpTo(n - 1)
         IN  S \cup {Append(s, r) : s \in {t \in S : Len(t) = n - 1}, r \in Records}

\* What DATA_FILE may hold: nothing (missing), something open()/read cannot
\* deliver (unreadable), text that is not JSON (invalid), JSON whose root is
\* an object or a scalar, or JSON whose root is a list of records.
BadKinds == {"missing", "unreadable", "invalid", "object", "scalar"}
FileStates ==
    {[kind |-> k, data |-> <<>>] : k \in BadKinds}
      \cup {[kind |-> "list", data |-> s] : s \in SeqsUpTo(MaxLen)}

\* BUZZ_INTERVAL_SECONDS as found in the environment
IntervalEnv == {"unset", "0", "1", "-1", "abc"}

VARIABLES
    pc,             \* position of main()
    file,           \* content of DATA_FILE on disk
    changes,        \* history: rewrites of the file during the run
    interval_secs,  \* main's interval_secs
    producer,       \* "none", "open" or "closed"
    topic_calls,    \* calls of create_kafka_topic
    json_data,      \* generate_messages: the list decoded at the cycle start
    idx,            \* generate_messages: records of json_data yielded so far
    message_dict,   \* main: the record pulled from the generator
    message_count,  \* main's message_count
    sent,           \* history: the values passed to producer.send, in order
    file_reads,     \* history: open() calls of generate_messages
    loadedTotal,    \* history: summed sizes of the lists decoded so far
    readFailure,    \* history: kind of file that made a read fail
    raisedAt,       \* history: loop step that raised an Exception
    startupFailure, \* history: startup step that failed
    interruptedAt,  \* history: position at which KeyboardInterrupt arrived
    sleeps,         \* history: calls of time.sleep that returned
    snapshots,      \* history: counts at which a throughput line was logged, in order
    closes,         \* history: calls of producer.close
    exiting,        \* code of a SystemExit travelling through main's finally
    exit_code,      \* exit status of the process
    budget          \* how far the run is followed: publish calls and reads

vars == <<pc, file, changes, interval_secs, producer, topic_calls, json_data,
          idx, message_dict, message_count, sent, file_reads, loadedTotal,
          readFailure, raisedAt, startupFailure, interruptedAt, snapshots,
          sleeps, closes, exiting, exit_code, budget>>

genVars == <<json_data, idx, file_reads, loadedTotal, readFailure>>
loopVars == <<message_dict, message_count, sent, snapshots, raisedAt, sleeps>>
envVars == <<file, changes, budget>>

StartupPcs == {"verify", "config", "check_file", "create_producer",
               "create_topic", "loop_start"}
StreamingPcs == {"pull", "send", "sending", "stats", "sleep"}
ShutdownPcs == {"except_interrupt", "except_exception", "finally"}

\* the state in which main is entered, for a run followed as far as b allows
Start(b) ==
    /\ pc = "verify"
    /\ file \in FileStates
    /\ changes = 0
    /\ interval_secs = 1
    /\ producer = "none"
    /\ topic_calls = 0
    /\ json_data = <<>>
    /\ idx = 0
    /\ message_dict = 0
    /\ message_count = 0
    /\ sent = <<>>
    /\ file_reads = 0
    /\ loadedTotal = 0
    /\ readFailure = "none"
    /\ raisedAt = "none"
    /\ startupFailure = "none"
    /\ interruptedAt = "none"
    /\ snapshots = <<>>
    /\ sleeps = 0
    /\ closes = 0
    /\ exiting = NoExit
    /\ exit_code = NoExit
    /\ budget = b

Init == Start([messages |-> MaxMessages, reads |-> MaxReads])

\* a long run: up to the 10th message and beyond, the file left alone
InitLong == Start([messages |-> LongRun, reads |-> LongRun])

\* sys.exit(code), or an exception nothing catches, outside main's try block
Exit(code) ==
    /\ pc' = "terminated"
    /\ exit_code' = code

\* ---- startup (main, lines 50-72) ------------------------------------------
VerifyServicesFailCodes == {1, 2, 3}

VerifyServicesOk ==
    /\ pc = "verify"
    /\ pc' = "config"
    /\ UNCHANGED <<interval_secs, producer, topic_calls, closes, exiting,
                   exit_code, interruptedAt, genVars, loopVars, envVars,
                   startupFailure>>

VerifyServicesFail ==
    /\ pc = "verify"
    /\ \E c \in VerifyServicesFailCodes : Exit(c)
    /\ startupFailure' = "verify"
    /\ UNCHANGED <<interval_secs, producer, topic_calls, closes, exiting,
                   interruptedAt, genVars, loopVars, envVars>>

\* int(os.getenv("BUZZ_INTERVAL_SECONDS", 1)): the default when unset, the
\* integer a numeral denotes, and no value (ValueError) otherwise.
IsInteger(s) == s \in {"0", "1", "-1"}
IntOf(s) == CASE s = "0" -> 0 [] s = "1" -> 1 [] s = "-1" -> -1

get_message_interval(env) == IF env = "unset" THEN 1 ELSE IntOf(env)

ResolveConfig ==
    /\ pc = "config"
    /\ \E env \in IntervalEnv :
          IF env = "unset" \/ IsInteger(env)
          THEN /\ interval_secs' = get_message_interval(env)
               /\ pc' = "check_file"
               /\ UNCHANGED <<exit_code, startupFailure>>
          ELSE /\ Exit(ExitUncaught)
               /\ startupFailure' = "config"
               /\ UNCHANGED interval_secs
    /\ UNCHANGED <<producer, topic_calls, closes, exiting, interruptedAt,
                   genVars, loopVars, envVars>>

\* DATA_FILE.exists()
Exists(f) == f.kind # "missing"

\* variant: the error is logged but sys.exit(1) is left out
DataFileMissingNoExit ==
    /\ pc = "check_file"
    /\ ~Exists(file)
    /\ startupFailure' = "data_file"
    /\ pc' = "create_producer"
    /\ UNCHANGED <<interval_secs, producer, topic_calls, closes, exiting,
                   exit_code, interruptedAt, genVars, loopVars, envVars>>

DataFileMissing ==
    /\ pc = "check_file"
    /\ ~Exists(file)
    /\ Exit(1)
    /\ startupFailure' = "data_file"
    /\ UNCHANGED <<interval_secs, producer, topic_calls, closes, exiting,
                   interruptedAt, genVars, loopVars, envVars>>

DataFileExists ==
    /\ pc = "check_file"
    /\ Exists(file)
    /\ pc' = "create_producer"
    /\ UNCHANGED <<interval_secs, producer, topic_calls, closes, exiting,
                   exit_code, interruptedAt, genVars, loopVars, envVars,
                   startupFailure>>

CreateProducerOk ==
    /\ pc = "create_producer"
    /\ producer' = "open"
    /\ pc' = "create_topic"
    /\ UNCHANGED <<interval_secs, topic_calls, closes, exiting, exit_code,
                   interruptedAt, genVars, loopVars, envVars,
                   startupFailure>>

\* variant: the missing client is logged and startup goes on
CreateProducerNoneIgnored ==
    /\ pc = "create_producer"
    /\ startupFailure' = "producer"
    /\ pc' = "create_topic"
    /\ UNCHANGED <<interval_secs, producer, topic_calls, closes, exiting,
                   exit_code, interruptedAt, genVars, loopVars, envVars>>

CreateProducerNone ==
    /\ pc = "create_producer"
    /\ Exit(3)
    /\ startupFailure' = "producer"
    /\ UNCHANGED <<interval_secs, producer, topic_calls, closes, exiting,
                   interruptedAt, genVars, loopVars, envVars>>

CreateTopicOk ==
    /\ pc = "create_topic"
    /\ topic_calls' = topic_calls + 1
    /\ pc' = "loop_start"
    /\ UNCHANGED <<interval_secs, producer, closes, exiting, exit_code,
                   interruptedAt, genVars, loopVars, envVars,
                   startupFailure>>

CreateTopicRaises ==
    /\ pc = "create_topic"
    /\ topic_calls' = topic_calls + 1
    /\ Exit(1)
    /\ startupFailure' = "topic"
    /\ UNCHANGED <<interval_secs, producer, closes, exiting, interruptedAt,
                   genVars, loopVars, envVars>>

\* lines 70-73: message_count = 0, start_time, entry of the try block
LoopStart ==
    /\ pc = "loop_start"
    /\ message_count' = 0
    /\ pc' = "pull"
    /\ UNCHANGED <<interval_secs, producer, topic_calls, closes, exiting,
                   exit_code, interruptedAt, genVars, message_dict, sent,
                   snapshots, raisedAt, envVars,
                   startupFailure, sleeps>>

\* ---- record source (generate_messages, lines 30-47) -----------------------
\* variant: a non-list root reported with the code of a decode error
SourceExitCodeShapeAsDecode(k) ==
    CASE k = "missing" -> 1
      [] k \in {"invalid", "object", "scalar"} -> 2
      [] k = "unreadable" -> 3

\* variant: a decode error reported with the code of a missing file
SourceExitCodeDecodeAsMissing(k) ==
    CASE k \in {"missing", "invalid"} -> 1
      [] k \in {"object", "scalar", "unreadable"} -> 3

\* The handler of generate_messages that a read of file kind k ends in: a
\* non-list root raises ValueError inside the try block, which only the
\* handler of Exception catches.
SourceExitCode(k) ==
    CASE k = "missing" -> 1
      [] k = "invalid" -> 2
      [] k \in {"object", "scalar", "unreadable"} -> 3

\* variant: the list is decoded once and replayed from memory afterwards
GenReadCached ==
    /\ pc = "pull"
    /\ idx = Len(json_data)
    /\ file_reads < budget.reads
    /\ IF json_data # <<>>
       THEN /\ idx' = 0
            /\ UNCHANGED <<file_reads, json_data, loadedTotal, pc,
                           readFailure, exiting>>
       ELSE /\ file_reads' = file_reads + 1
            /\ IF file.kind = "list"
               THEN /\ json_data' = file.data
                    /\ idx' = 0
                    /\ loadedTotal' = loadedTotal + Len(file.data)
                    /\ UNCHANGED <<pc, readFailure, exiting>>
               ELSE /\ readFailure' = file.kind
                    /\ exiting' = SourceExitCode(file.kind)
                    /\ pc' = "finally"
                    /\ UNCHANGED <<json_data, idx, loadedTotal>>
    /\ UNCHANGED <<interval_secs, producer, topic_calls, closes, exit_code,
                   interruptedAt, loopVars, envVars, startupFailure>>

\* variant: an empty list ends the generator like an unexpected error
GenReadEmptyFails ==
    /\ pc = "pull"
    /\ idx = Len(json_data)
    /\ file_reads < budget.reads
    /\ file_reads' = file_reads + 1
    /\ IF file.kind = "list" /\ file.data # <<>>
       THEN /\ json_data' = file.data
            /\ idx' = 0
            /\ loadedTotal' = loadedTotal + Len(file.data)
            /\ UNCHANGED <<pc, readFailure, exiting>>
       ELSE /\ readFailure' = (IF file.kind = "list" THEN "unreadable"
                               ELSE file.kind)
            /\ exiting' = SourceExitCode(readFailure')
            /\ pc' = "finally"
            /\ UNCHANGED <<json_data, idx, loadedTotal>>
    /\ UNCHANGED <<interval_secs, producer, topic_calls, closes, exit_code,
                   interruptedAt, loopVars, envVars, startupFailure>>

\* variant: a failed read is logged and the while loop tries again
GenReadRetry ==
    /\ pc = "pull"
    /\ idx = Len(json_data)
    /\ file_reads < budget.reads
    /\ file_reads' = file_reads + 1
    /\ IF file.kind = "list"
       THEN /\ json_data' = file.data
            /\ idx' = 0
            /\ loadedTotal' = loadedTotal + Len(file.data)
            /\ UNCHANGED readFailure
       ELSE /\ readFailure' = file.kind
            /\ UNCHANGED <<json_data, idx, loadedTotal>>
    /\ UNCHANGED <<pc, exiting, interval_secs, producer, topic_calls, closes,
                   exit_code, interruptedAt, loopVars, envVars,
                   startupFailure>>

\* The generator is resumed with no record of json_data left (first call, or
\* the for loop is exhausted and while True starts over): it opens and decodes
\* the file.  A list is kept for the cycle; anything else ends in sys.exit,
\* whose SystemExit leaves the generator and reaches main's finally.
GenRead ==
    /\ pc = "pull"
    /\ idx = Len(json_data)
    /\ file_reads < budget.reads
    /\ file_reads' = file_reads + 1
    /\ IF file.kind = "list"
       THEN /\ json_data' = file.data
            /\ idx' = 0
            /\ loadedTotal' = loadedTotal + Len(file.data)
            /\ UNCHANGED <<pc, readFailure, exiting>>
       ELSE /\ readFailure' = file.kind
            /\ exiting' = SourceExitCode(file.kind)
            /\ pc' = "finally"
            /\ UNCHANGED <<json_data, idx, loadedTotal>>
    /\ UNCHANGED <<interval_secs, producer, topic_calls, closes, exit_code,
                   interruptedAt, loopVars, envVars,
                   startupFailure>>

\* variant: each record is taken from the file as it is when it is yielded
GenYieldLive ==
    /\ pc = "pull"
    /\ idx < Len(json_data)
    /\ Len(sent) < budget.messages
    /\ idx' = idx + 1
    /\ message_dict' = IF file.kind = "list" /\ idx + 1 <= Len(file.data)
                       THEN file.data[idx + 1]
                       ELSE json_data[idx + 1]
    /\ pc' = "send"
    /\ UNCHANGED <<interval_secs, producer, topic_calls, closes, exiting,
                   exit_code, interruptedAt, json_data, file_reads,
                   loadedTotal, readFailure, message_count, sent, snapshots,
                   raisedAt, envVars, startupFailure, sleeps>>

\* variant: the list is walked from its end
GenYieldReversed ==
    /\ pc = "pull"
    /\ idx < Len(json_data)
    /\ Len(sent) < budget.messages
    /\ idx' = idx + 1
    /\ message_dict' = json_data[Len(json_data) - idx]
    /\ pc' = "send"
    /\ UNCHANGED <<interval_secs, producer, topic_calls, closes, exiting,
                   exit_code, interruptedAt, json_data, file_reads,
                   loadedTotal, readFailure, message_count, sent, snapshots,
                   raisedAt, envVars, startupFailure, sleeps>>

\* yield buzz_entry: the next record of the list read at the cycle start
GenYield ==
    /\ pc = "pull"
    /\ idx < Len(json_data)
    /\ Len(sent) < budget.messages
    /\ idx' = idx + 1
    /\ message_dict' = json_data[idx + 1]
    /\ pc' = "send"
    /\ UNCHANGED <<interval_secs, producer, topic_calls, closes, exiting,
                   exit_code, interruptedAt, json_data, file_reads,
                   loadedTotal, readFailure, message_count, sent, snapshots,
                   raisedAt, envVars,
                   startupFailure, sleeps>>

\* ---- loop body (main, lines 75-88) ----------------------------------------
\* producer.send(topic, value=message_dict) is entered
SendCall ==
    /\ pc = "send"
    /\ sent' = Append(sent, message_dict)
    /\ pc' = "sending"
    /\ UNCHANGED <<interval_secs, producer, topic_calls, closes, exiting,
                   exit_code, interruptedAt, genVars, message_dict,
                   message_count, snapshots, raisedAt, envVars,
                   startupFailure, sleeps>>

SendReturns ==
    /\ pc = "sending"
    /\ pc' = "stats"
    /\ UNCHANGED <<interval_secs, producer, topic_calls, closes, exiting,
                   exit_code, interruptedAt, genVars, loopVars, envVars,
                   startupFailure>>

SendRaises ==
    /\ pc = "sending"
    /\ raisedAt' = "send"
    /\ pc' = "except_exception"
    /\ UNCHANGED <<interval_secs, producer, topic_calls, closes, exiting,
                   exit_code, interruptedAt, genVars, message_dict,
                   message_count, sent, snapshots, envVars,
                   startupFailure, sleeps>>

\* msg_end_time - start_time, in clock ticks: the sleeps of a positive
\* interval make the clock advance; with interval 0 it may still read the
\* same as at the start of the loop.
ElapsedTimes == IF interval_secs = 0 THEN {0, 1} ELSE {1}

\* variant: the throughput line is logged before the rate is computed
StatsLogsBeforeDivide ==
    /\ pc = "stats"
    /\ message_count' = message_count + 1
    /\ IF message_count' % 10 = 0
       THEN /\ snapshots' = Append(snapshots, message_count')
            /\ \E elapsed \in ElapsedTimes :
                  IF elapsed = 0
                  THEN /\ raisedAt' = "stats"
                       /\ pc' = "except_exception"
                  ELSE /\ pc' = "sleep"
                       /\ UNCHANGED raisedAt
       ELSE /\ pc' = "sleep"
            /\ UNCHANGED <<snapshots, raisedAt>>
    /\ UNCHANGED <<interval_secs, producer, topic_calls, closes, exiting,
                   exit_code, interruptedAt, genVars, message_dict, sent,
                   envVars, startupFailure, sleeps>>

\* variant: the loop continues with the next record right after the statistics
StatsSkipsSleep ==
    /\ pc = "stats"
    /\ message_count' = message_count + 1
    /\ IF message_count' % 10 = 0
       THEN \E elapsed \in ElapsedTimes :
               IF elapsed = 0
               THEN /\ raisedAt' = "stats"
                    /\ pc' = "except_exception"
                    /\ UNCHANGED snapshots
               ELSE /\ snapshots' = Append(snapshots, message_count')
                    /\ pc' = "pull"
                    /\ UNCHANGED raisedAt
       ELSE /\ pc' = "pull"
            /\ UNCHANGED <<snapshots, raisedAt>>
    /\ UNCHANGED <<interval_secs, producer, topic_calls, closes, exiting,
                   exit_code, interruptedAt, genVars, message_dict, sent,
                   envVars, startupFailure, sleeps>>

\* lines 78-86: count the message; on every 10th compute count / elapsed,
\* which raises ZeroDivisionError when the clock shows no elapsed time.
Stats ==
    /\ pc = "stats"
    /\ message_count' = message_count + 1
    /\ IF message_count' % 10 = 0
       THEN \E elapsed \in ElapsedTimes :
               IF elapsed = 0
               THEN /\ raisedAt' = "stats"
                    /\ pc' = "except_exception"
                    /\ UNCHANGED snapshots
               ELSE /\ snapshots' = Append(snapshots, message_count')
                    /\ pc' = "sleep"
                    /\ UNCHANGED raisedAt
       ELSE /\ pc' = "sleep"
            /\ UNCHANGED <<snapshots, raisedAt>>
    /\ UNCHANGED <<interval_secs, producer, topic_calls, closes, exiting,
                   exit_code, interruptedAt, genVars, message_dict, sent,
                   envVars,
                   startupFailure, sleeps>>

\* time.sleep(interval_secs) raises ValueError for a negative interval
Sleep ==
    /\ pc = "sleep"
    /\ IF interval_secs < 0
       THEN /\ raisedAt' = "sleep"
            /\ pc' = "except_exception"
            /\ UNCHANGED sleeps
       ELSE /\ sleeps' = sleeps + 1
            /\ pc' = "pull"
            /\ UNCHANGED raisedAt
    /\ UNCHANGED <<interval_secs, producer, topic_calls, closes, exiting,
                   exit_code, interruptedAt, genVars, message_dict,
                   message_count, sent, snapshots, envVars,
                   startupFailure>>

\* ---- shutdown (main, lines 89-97) -----------------------------------------
\* variant: the interrupt handler closes the producer itself
ExceptInterruptCloses ==
    /\ pc = "except_interrupt"
    /\ producer' = "closed"
    /\ closes' = closes + 1
    /\ pc' = "finally"
    /\ UNCHANGED <<interval_secs, topic_calls, exiting, exit_code,
                   interruptedAt, genVars, loopVars, envVars, startupFailure>>

ExceptInterrupt ==
    /\ pc = "except_interrupt"
    /\ pc' = "finally"
    /\ UNCHANGED <<interval_secs, producer, topic_calls, closes, exiting,
                   exit_code, interruptedAt, genVars, loopVars, envVars,
                   startupFailure>>

\* variant: a failed send is logged and the record is sent again
ExceptExceptionRetries ==
    /\ pc = "except_exception"
    /\ pc' = (IF raisedAt = "send" THEN "send" ELSE "finally")
    /\ UNCHANGED <<interval_secs, producer, topic_calls, closes, exiting,
                   exit_code, interruptedAt, genVars, loopVars, envVars,
                   startupFailure>>

ExceptException ==
    /\ pc = "except_exception"
    /\ pc' = "finally"
    /\ UNCHANGED <<interval_secs, producer, topic_calls, closes, exiting,
                   exit_code, interruptedAt, genVars, loopVars, envVars,
                   startupFailure>>

\* variant: an exception caught in the loop ends the run with status 1
FinallyPropagates ==
    /\ pc = "finally"
    /\ producer' = "closed"
    /\ closes' = closes + 1
    /\ Exit(IF exiting # NoExit THEN exiting
            ELSE IF raisedAt # "none" THEN 1 ELSE 0)
    /\ UNCHANGED <<interval_secs, topic_calls, exiting, interruptedAt,
                   genVars, loopVars, envVars, startupFailure>>

\* variant: the SystemExit of the record source is swallowed as well
FinallySwallows ==
    /\ pc = "finally"
    /\ producer' = "closed"
    /\ closes' = closes + 1
    /\ Exit(0)
    /\ UNCHANGED <<interval_secs, topic_calls, exiting, interruptedAt,
                   genVars, loopVars, envVars, startupFailure>>

\* finally: producer.close(); then the pending SystemExit goes on, or main
\* returns after "END producer." and the interpreter exits with status 0.
Finally ==
    /\ pc = "finally"
    /\ producer' = "closed"
    /\ closes' = closes + 1
    /\ Exit(IF exiting # NoExit THEN exiting ELSE 0)
    /\ UNCHANGED <<interval_secs, topic_calls, exiting, interruptedAt,
                   genVars, loopVars, envVars,
                   startupFailure>>

\* ---- environment -----------------------------------------------------------
\* KeyboardInterrupt outside the try block: nothing catches it
InterruptStartup ==
    /\ pc \in StartupPcs
    /\ interruptedAt = "none"
    /\ interruptedAt' = pc
    /\ Exit(ExitInterrupted)
    /\ UNCHANGED <<interval_secs, producer, topic_calls, closes, exiting,
                   genVars, loopVars, envVars,
                   startupFailure>>

\* variant: a signal that arrives during send is held until send has returned
\* and the message is counted
InterruptStreamingAfterSend ==
    /\ pc \in StreamingPcs
    /\ interruptedAt = "none"
    /\ interruptedAt' = pc
    /\ pc' = "except_interrupt"
    /\ message_count' = IF pc = "sending" THEN message_count + 1
                        ELSE message_count
    /\ UNCHANGED <<interval_secs, producer, topic_calls, closes, exiting,
                   exit_code, genVars, message_dict, sent, snapshots,
                   raisedAt, sleeps, envVars, startupFailure>>

\* KeyboardInterrupt inside the try block, in main or in the generator it is
\* resuming (whose handlers catch FileNotFoundError, JSONDecodeError and
\* Exception only)
InterruptStreaming ==
    /\ pc \in StreamingPcs
    /\ interruptedAt = "none"
    /\ interruptedAt' = pc
    /\ pc' = "except_interrupt"
    /\ UNCHANGED <<interval_secs, producer, topic_calls, closes, exiting,
                   exit_code, genVars, loopVars, envVars,
                   startupFailure>>

\* another process rewrites, removes or corrupts the data file
FileChange ==
    /\ pc # "terminated"
    /\ changes < MaxChanges
    /\ \E f \in FileStates \ {file} : file' = f
    /\ changes' = changes + 1
    /\ UNCHANGED <<pc, interval_secs, producer, topic_calls, closes, exiting,
                   exit_code, interruptedAt, genVars, loopVars,
                   startupFailure, budget>>

Next ==
    \/ VerifyServicesOk
    \/ VerifyServicesFail
    \/ ResolveConfig
    \/ DataFileMissing
    \/ DataFileExists
    \/ CreateProducerOk
    \/ CreateProducerNone
    \/ CreateTopicOk
    \/ CreateTopicRaises
    \/ LoopStart
    \/ GenRead
    \/ GenYield
    \/ SendCall
    \/ SendReturns
    \/ SendRaises
    \/ Stats
    \/ Sleep
    \/ ExceptInterrupt
    \/ ExceptException
    \/ Finally
    \/ InterruptStartup
    \/ InterruptStreaming
    \/ FileChange

Spec == Init /\ [][Next]_vars

NextLong ==
    \/ VerifyServicesOk
    \/ VerifyServicesFail
    \/ ResolveConfig
    \/ DataFileMissing
    \/ DataFileExists
    \/ CreateProducerOk
    \/ CreateProducerNone
    \/ CreateTopicOk
    \/ CreateTopicRaises
    \/ LoopStart
    \/ GenRead
    \/ GenYield
    \/ SendCall
    \/ SendReturns
    \/ SendRaises
    \/ Stats
    \/ Sleep
    \/ ExceptInterrupt
    \/ ExceptException
    \/ Finally
    \/ InterruptStartup
    \/ InterruptStreaming

SpecLong == InitLong /\ [][NextLong]_vars

TypeOK ==
    /\ pc \in StartupPcs \cup StreamingPcs \cup ShutdownPcs \cup {"terminated"}
    /\ file \in FileStates
    /\ producer \in {"none", "open", "closed"}
    /\ idx \in 0..Len(json_data)
    /\ Len(sent) <= budget.messages
    /\ message_count <= Len(sent)

\* ---- properties ------------------------------------------------------------
Terminated == pc = "terminated"

\* the file still holds the well-formed, non-empty collection it started with
UnmodifiedCollection ==
    /\ changes = 0
    /\ file.kind = "list"
    /\ Len(file.data) >= 1

\* reads that decoded a list
SuccessfulReads == file_reads - (IF readFailure = "none" THEN 0 ELSE 1)

\* C1: with an unmodified well-formed file of N >= 1 records, the i-th
\* publish call carries the record at index (i-1) mod N of the file, for any
\* interval.
C1_PublishInFileOrder ==
    UnmodifiedCollection =>
        \A i \in 1..Len(sent) :
            sent[i] = file.data[((i - 1) % Len(file.data)) + 1]

C1_Witness ==
    /\ UnmodifiedCollection
    /\ interval_secs = 0
    /\ file.data = <<2, 1>>
    /\ sent = <<2, 1, 2>>
    /\ message_count = 3

\* C2: with an unmodified well-formed file of N >= 1 records, whenever N*k
\* messages have been published (k >= 1) the file has been opened and
\* decoded at least k times.
C2_ReadPerCycle ==
    UnmodifiedCollection =>
        \A k \in 1..MaxMessages :
            Len(sent) = Len(file.data) * k => SuccessfulReads >= k

C2_Witness ==
    /\ UnmodifiedCollection
    /\ Len(file.data) = 2
    /\ Len(sent) = 4
    /\ SuccessfulReads = 2

\* C3: when the startup existence check finds no data file, the process
\* terminates with exit code 1, with no publish attempt, no broker client
\* acquired and no topic assurance attempted.
C3_MissingFileAtStartup ==
    startupFailure = "data_file" =>
        /\ Terminated
        /\ exit_code = 1
        /\ sent = <<>>
        /\ file_reads = 0
        /\ producer = "none"
        /\ topic_calls = 0

C3_Witness ==
    /\ startupFailure = "data_file"
    /\ Terminated
    /\ file.kind = "missing"

C5_ClosedExactlyOnce ==
    (Terminated /\ producer # "none") => closes = 1

\* C6: an interruption that arrives in the streaming loop (pull, send,
\* statistics or sleep) leads to exactly one close before the process
\* terminates.
C6_InterruptClosesOnce ==
    interruptedAt \in StreamingPcs =>
        /\ pc \in ShutdownPcs \cup {"terminated"}
        /\ closes = (IF Terminated THEN 1 ELSE 0)
        /\ producer = (IF Terminated THEN "closed" ELSE "open")

C6_Witness ==
    /\ Terminated
    /\ interruptedAt = "sending"
    /\ closes = 1
    /\ Len(sent) = 2

\* C7: after streaming has started, an interruption or an exception raised by
\* the publish step ends the run through the cleanup with exit code 0.
C7_InLoopFailureExitsZero ==
    (interruptedAt \in StreamingPcs \/ raisedAt = "send") =>
        /\ pc \in ShutdownPcs \cup {"terminated"}
        /\ Terminated => (exit_code = 0 /\ closes = 1)

C7_Witness ==
    /\ Terminated
    /\ raisedAt = "send"
    /\ interruptedAt = "none"
    /\ exit_code = 0
    /\ closes = 1

\* The driver states of the design, as positions of main
Phase(p) ==
    CASE p = "verify" -> "Init"
      [] p \in {"config", "check_file", "create_producer"} -> "PreconditionsChecked"
      [] p = "create_topic" -> "ClientAcquired"
      [] p = "loop_start" -> "TopicAssured"
      [] p \in StreamingPcs -> "Streaming"
      [] p \in ShutdownPcs -> "ShuttingDown"
      [] p = "terminated" -> "Terminated"

Successor(ph) ==
    CASE ph = "Init" -> "PreconditionsChecked"
      [] ph = "PreconditionsChecked" -> "ClientAcquired"
      [] ph = "ClientAcquired" -> "TopicAssured"
      [] ph = "TopicAssured" -> "Streaming"
      [] ph = "Streaming" -> "ShuttingDown"
      [] ph = "ShuttingDown" -> "Terminated"
      [] ph = "Terminated" -> "Terminated"

\* the states are passed in order; before Streaming a step may also end the
\* process, with a nonzero code; Streaming is left through ShuttingDown only
OrderedStep ==
    /\ Phase(pc') \in {Phase(pc), Successor(Phase(pc))}
          \cup (IF pc \in StartupPcs THEN {"Terminated"} ELSE {})
    /\ (pc \in StartupPcs /\ pc' = "terminated") =>
          (exit_code' # 0 /\ exit_code' # NoExit)

\* C8 as claimed: the driver follows the state machine, a failure before
\* Streaming ends the process directly with a nonzero code, and every run
\* that leaves Streaming terminates through ShuttingDown with exit code 0.
C8_StateMachineExitZero ==
    [][/\ OrderedStep
       /\ (pc \in ShutdownPcs /\ pc' = "terminated") => exit_code' = 0]_vars

\* C8 amended: as claimed, except that a run which left Streaming because a
\* read of the record source failed terminates through ShuttingDown with the
\* nonzero code of that failure; only interruptions and exceptions caught in
\* the loop give exit code 0.
C8_StateMachine ==
    [][/\ OrderedStep
       /\ (pc \in ShutdownPcs /\ pc' = "terminated") =>
             exit_code' = (IF readFailure = "none" THEN 0
                           ELSE SourceExitCode(readFailure))
       /\ (pc \in ShutdownPcs /\ pc' = "terminated" /\ readFailure # "none") =>
             exit_code' \in {1, 2, 3}]_vars

C8_Witness ==
    /\ Terminated
    /\ readFailure = "invalid"
    /\ exit_code = 2
    /\ closes = 1
    /\ Len(sent) >= 1

\* The failure modes of the record source, by kind of file
FailureMode(k) ==
    CASE k = "missing" -> "SourceNotFound"
      [] k = "invalid" -> "SourceDecodeError"
      [] k \in {"object", "scalar"} -> "SourceShapeError"
      [] k = "unreadable" -> "SourceUnknownError"

C10_FailedReadEndsRun ==
    [][/\ readFailure' # "none" =>
             /\ pc' \in {"finally", "terminated"}
             /\ Len(sent') = loadedTotal'
             /\ pc' = "terminated" => exit_code' \notin {0, NoExit}
       /\ readFailure # "none" =>
             /\ file_reads' = file_reads
             /\ sent' = sent
             /\ readFailure' = readFailure]_vars

C10_Witness ==
    /\ Terminated
    /\ readFailure = "missing"
    /\ SuccessfulReads = 2
    /\ Len(sent) = 4
    /\ loadedTotal = 4
    /\ exit_code = 1

\* the values of snapshots, as a set
Snapshot(c) == \E i \in 1..Len(snapshots) : snapshots[i] = c

\* C11: a throughput snapshot is emitted for the publish that brings the
\* counter to c exactly when c is a positive multiple of 10, and at most once
\* per count.
C11_SnapshotOnEveryTenth ==
    /\ \A c \in 1..message_count : Snapshot(c) <=> (c % 10 = 0)
    /\ \A i \in 1..Len(snapshots) : snapshots[i] = 10 * i

\* C12: with a well-formed non-empty file at every read, a send that always
\* succeeds, a non-negative interval and no interruption, no step leaves
\* Streaming.
C12_StreamingHasNoExit ==
    [][(pc \in StreamingPcs /\ pc' \notin StreamingPcs) =>
          \/ interruptedAt' # "none"
          \/ raisedAt' = "send"
          \/ readFailure' # "none"
          \/ interval_secs < 0]_vars

\* C19: when the clock shows no elapsed time at a count that is a multiple of
\* 10, the division fails and is handled as an in-loop error: no snapshot for
\* that count, no further publish, one close, exit code 0.
C19_ZeroElapsedEndsRun ==
    raisedAt = "stats" =>
        /\ message_count % 10 = 0
        /\ ~Snapshot(message_count)
        /\ Len(sent) = message_count
        /\ sleeps = message_count - 1
        /\ pc \in {"except_exception", "finally", "terminated"}
        /\ closes = (IF Terminated THEN 1 ELSE 0)
        /\ Terminated => exit_code = 0

C19_Witness ==
    /\ raisedAt = "stats"
    /\ Terminated
    /\ interval_secs = 0
    /\ message_count = 10
    /\ snapshots = <<>>
    /\ exit_code = 0
    /\ closes = 1

\* C13: exactly one sleep lies between two consecutive publish calls: the
\* i-th call is made after i-1 sleeps and the next record is pulled only
\* after the sleep that follows a successful publish; a publish call that
\* raises is followed by no sleep and does not count.
C13_OneSleepPerPublish ==
    /\ sleeps <= message_count
    /\ message_count <= Len(sent)
    /\ Len(sent) <= sleeps + 1
    /\ pc = "sending" => (sleeps = Len(sent) - 1 /\ message_count = sleeps)
    /\ pc \in {"pull", "send"} => (sleeps = Len(sent) /\ message_count = sleeps)
    /\ raisedAt = "send" =>
          (sleeps = Len(sent) - 1 /\ message_count = Len(sent) - 1)

C13_Witness ==
    /\ Terminated
    /\ raisedAt = "send"
    /\ Len(sent) = 3
    /\ sleeps = 2
    /\ message_count = 2

\* C14 as claimed: the shutdown logic never starts for an interruption that
\* arrived while a publish call was in flight.
C14_NoShutdownDuringSend ==
    pc \in ShutdownPcs \cup {"terminated"} => interruptedAt # "sending"

\* C14 amended: an interruption is observed wherever it arrives in the loop;
\* one that arrives during a publish call aborts the call, which neither
\* completes nor raises an Exception: the message is not counted, no sleep
\* follows, the handler and one close run and the exit code is 0.
C14_InterruptAbortsSend ==
    interruptedAt = "sending" =>
        /\ pc \in ShutdownPcs \cup {"terminated"}
        /\ raisedAt = "none"
        /\ message_count = Len(sent) - 1
        /\ sleeps = Len(sent) - 1
        /\ closes = (IF Terminated THEN 1 ELSE 0)
        /\ Terminated => exit_code = 0

C14_Witness ==
    /\ interruptedAt = "sending"
    /\ pc = "except_interrupt"
    /\ Len(sent) = 2
    /\ message_count = 1

\* C15: nothing is retried: after the first publish call that raises no
\* further publish call is made, a failed startup step ends the process, and
\* a failed read of the source is not followed by another read.
C15_NoRetry ==
    [][/\ raisedAt' = "send" =>
             pc' \in {"except_exception", "finally", "terminated"}
       /\ raisedAt = "send" =>
             (sent' = sent /\ message_count' = message_count)
       /\ startupFailure' # "none" =>
             (pc' = "terminated" /\ topic_calls' <= 1 /\ file_reads' = 0)
       /\ readFailure # "none" =>
             (file_reads' = file_reads /\ sent' = sent)]_vars

C15_Witness ==
    /\ Terminated
    /\ raisedAt = "send"
    /\ sent = <<1>>
    /\ json_data = <<1, 2>>
    /\ idx = 1

\* publish calls made for records of the cycle in progress: every yielded
\* record but one that is still waiting for its send call
CycleSent ==
    IF idx > 0 /\ (pc = "send" \/ interruptedAt = "send")
    THEN idx - 1 ELSE idx

\* the publish calls of the cycle in progress carry the first records of the
\* list decoded at the cycle's start, in order
CycleAsDecoded ==
    /\ CycleSent <= Len(sent)
    /\ SubSeq(sent, Len(sent) - CycleSent + 1, Len(sent))
          = SubSeq(json_data, 1, CycleSent)

\* C16: the records published during a cycle are the file content as decoded
\* at the cycle's start: a rewrite of the file changes neither the decoded
\* list nor the record about to be published, and the read that starts the
\* next cycle takes the file as it is then.
C16_CycleIsSnapshotOfFile ==
    [][/\ CycleAsDecoded'
       /\ file' # file => UNCHANGED <<json_data, idx, message_dict, sent>>
       /\ (file_reads' # file_reads /\ file.kind = "list") =>
             (json_data' = file.data /\ idx' = 0)]_vars

C16_Witness ==
    /\ changes = 1
    /\ file_reads = 2
    /\ file.kind = "list"
    /\ file.data = <<2, 2>>
    /\ json_data = <<2, 2>>
    /\ sent = <<1, 1, 2>>

\* C17: the startup steps gate each other: the client is acquired only after
\* the precondition check, the configuration and the file check succeeded,
\* topic assurance is attempted only with an acquired client, no read and no
\* publish happens before topic assurance succeeded, and a precondition
\* failure ends the process with nothing acquired.
C17_StartupOrder ==
    /\ pc \in {"verify", "config", "check_file", "create_producer"} =>
          (producer = "none" /\ topic_calls = 0)
    /\ pc = "create_topic" => (producer = "open" /\ topic_calls = 0)
    /\ producer # "none" =>
          startupFailure \notin {"verify", "config", "data_file", "producer"}
    /\ topic_calls > 0 => producer # "none"
    /\ (file_reads > 0 \/ Len(sent) > 0) =>
          (topic_calls = 1 /\ producer # "none" /\ startupFailure = "none")
    /\ startupFailure = "verify" =>
          /\ Terminated
          /\ exit_code \notin {0, NoExit}
          /\ producer = "none"
          /\ topic_calls = 0
          /\ file_reads = 0
          /\ sent = <<>>

C17_Witness ==
    /\ pc = "sending"
    /\ producer = "open"
    /\ topic_calls = 1
    /\ startupFailure = "none"
    /\ file_reads = 1
    /\ Len(sent) = 1

\* C18: while the file holds an empty list, the record source neither yields
\* nor fails: once streaming has started the driver stays at the record pull,
\* reading the file again and again with no publish and no sleep, until an
\* interruption arrives or the file is rewritten; a publish needs a read
\* that returned a non-empty list.
C18_EmptyListSpins ==
    /\ (/\ changes = 0
        /\ file.kind = "list"
        /\ file.data = <<>>
        /\ pc \notin StartupPcs
        /\ startupFailure = "none"
        /\ interruptedAt = "none") =>
           /\ pc = "pull"
           /\ json_data = <<>>
           /\ sent = <<>>
           /\ sleeps = 0
           /\ readFailure = "none"
           /\ closes = 0
           /\ exit_code = NoExit
    /\ Len(sent) > 0 => loadedTotal > 0

C18_Witness ==
    /\ changes = 0
    /\ file.kind = "list"
    /\ file.data = <<>>
    /\ pc = "pull"
    /\ file_reads = 3
    /\ sent = <<>>
    /\ sleeps = 0
====
